---- MODULE Spec2Model ----
(***************************************************************************)
(* The lifecycle orchestrator of db-pool's async Postgres backend          *)
(* (PostgresBackendWrapper: init, create, clean, drop), the database       *)
(* engine it drives, the map of retained privileged connections and the    *)
(* readers-writer guard its callers wrap the operations in.                *)
(*                                                                         *)
(* Every await point of an operation is one step.  A step either succeeds  *)
(* (only if the engine can carry it out) or fails with the error kind of   *)
(* its phase, and a failed step makes the operation return at once ("?").  *)
(***************************************************************************)
EXTENDS Integers, Sequences, FiniteSets, TLC

\* ----------------------------------------------------------------- bounds
MaxIds == 2
MaxOrphans == 1
MaxTables == 2
MaxRows == 1
MaxSize == 2

Ids == 1 .. MaxIds
Orphans == (MaxIds + 1) .. (MaxIds + MaxOrphans)
Tables == 1 .. MaxTables

\* ------------------------------------------------------------------ names
Prefix == "db_pool"

\* util::get_db_name: the fixed prefix followed by the encoding of the id.
get_db_name(id) == <<Prefix, id>>

\* The engine's always-present administrative database.
DefaultDb == <<"postgres", 0>>

PoolNames == {get_db_name(k) : k \in Ids \cup Orphans}

VARIABLES
    dbs,        \* engine catalog: the names of the existing databases
    roles,      \* engine catalog: the names of the existing roles
    owner,      \* databases owned by the role of the same name
    tables,     \* tables[id]: the tables of id's database
    rows,       \* rows[id][t]: the number of rows of table t
    tpriv,      \* tpriv[id]: tables the role holds the restricted privileges on
    spriv,      \* spriv[id]: tables whose sequences the role may use
    db_conns,   \* the retained privileged connection of each id (0: no entry)
    op,         \* op[id]: the lifecycle operation in flight for id
    hist,       \* hist[id]: what the caller holding id has seen so far
    sweep,      \* the init task
    hookTables, \* the tables the backend's entity-creation hook creates
    hookKeeps,  \* whether the hook hands the connection back
    max_size,   \* the capacity of the pool of default connections
    pool        \* the outer database pool

vars == <<dbs, roles, owner, tables, rows, tpriv, spriv, db_conns, op, hist,
          sweep, hookTables, hookKeeps, max_size, pool>>

engine == <<dbs, roles, owner, tables, rows, tpriv, spriv>>
hook == <<hookTables, hookKeeps>>

NoRows == [t \in Tables |-> 0]

IdleOp == [kind |-> "none", pc |-> "idle", restricted |-> FALSE, w |-> "none",
           res |-> "-", conn |-> 0, todo |-> <<>>,
           preTables |-> {}, preRows |-> NoRows, preConn |-> 0,
           after |-> "-", late |-> FALSE, failed |-> FALSE, log |-> <<>>]

\* prev: the last thing that happened to the database ("create": create
\* returned, "cleanok": clean returned Ok, "other": anything else).
NewHist == [created |-> "no", mode |-> FALSE, w |-> "none", dbMade |-> FALSE,
            dropped |-> FALSE, prev |-> "-"]

IdleSweep == [pc |-> "idle", flag |-> FALSE, w |-> "none", names |-> {},
              sub |-> [n \in PoolNames |-> "-"], res |-> "-", pre |-> {},
              nconn |-> 0, nstmt |-> 0, during |-> {}]

\* The outer pool: the idle queue, the outstanding guards of each kind on
\* each id, the pool call working on each id, the entries teardown has still
\* to drop, and what the pool's user has seen (guards handed out by
\* pull_immutable, create and clean calls returned, whether some call
\* returned an error, whether every pull found the pool at rest, whether
\* teardown found every guard released).
NewPool == [alive |-> TRUE, idle |-> <<>>,
            imm |-> [i \in Ids |-> 0], mut |-> [i \in Ids |-> 0],
            task |-> [i \in Ids |-> "-"], down |-> <<>>,
            calls |-> 0, pulls |-> 0, creates |-> 0, cleans |-> 0,
            failed |-> FALSE, seq |-> TRUE, orderly |-> FALSE]

Wrappers == {"none", "read", "write"}

\* ------------------------------------------------------------------- guard
\* PG_DROP_LOCK as seen through PgDropLock: a task holds the guard from the
\* moment its wrapper acquired it until the wrapped future is done with.
\* The tasks are the operations of the ids and init (task 0).
Holders(mode) ==
    {id \in Ids : op[id].pc # "idle" /\ op[id].w = mode}
        \cup (IF sweep.pc # "idle" /\ sweep.w = mode THEN {0} ELSE {})

\* Mutant: the exclusive guard is granted while readers hold the guard.
CanLockDrop_IgnoresReaders == Holders("write") = {}

\* PgDropLock::lock_drop: PG_DROP_LOCK.write()
CanLockDrop == Holders("write") = {} /\ Holders("read") = {}

\* Mutant: the shared guard is granted while a writer holds the guard.
CanLockRead_IgnoresWriter == TRUE

\* PgDropLock::lock_read: PG_DROP_LOCK.read()
CanLockRead == Holders("write") = {}

Acquire(w) ==
    CASE w = "write" -> CanLockDrop
      [] w = "read" -> CanLockRead
      [] OTHER -> TRUE

\* ------------------------------------------------------------------ engine
\* What each statement needs of the catalog to succeed.
Matches(n) == n[1] = Prefix

\* A connection to database n is open: the retained one, the one a create or
\* clean in flight holds, or the one handed to the hook of an unrestricted
\* create.  The engine refuses to drop a database somebody is connected to.
SessionOpen(n) ==
    \E i \in Ids :
        /\ get_db_name(i) = n
        /\ \/ db_conns[i] # 0
           \/ op[i].conn # 0
           \/ op[i].pc = "c_rconn"

CanDropDb(n) == n \in dbs /\ ~SessionOpen(n)

DropDb(n) ==
    /\ dbs' = dbs \ {n}
    /\ owner' = owner \ {n}
    /\ tables' = [i \in Ids |-> IF get_db_name(i) = n THEN {} ELSE tables[i]]
    /\ rows' = [i \in Ids |-> IF get_db_name(i) = n THEN NoRows ELSE rows[i]]
    /\ tpriv' = [i \in Ids |-> IF get_db_name(i) = n THEN {} ELSE tpriv[i]]
    /\ spriv' = [i \in Ids |-> IF get_db_name(i) = n THEN {} ELSE spriv[i]]
    /\ UNCHANGED roles

\* A statement of the role attached to id: data manipulation on table t.
DmlSucceeds(id, t) ==
    /\ get_db_name(id) \in dbs
    /\ get_db_name(id) \in roles
    /\ t \in tables[id]
    /\ \/ get_db_name(id) \in owner
       \/ t \in tpriv[id] /\ t \in spriv[id]

\* A statement of the role attached to id: a schema change.
DdlSucceeds(id) ==
    /\ get_db_name(id) \in dbs
    /\ get_db_name(id) \in roles
    /\ get_db_name(id) \in owner

\* ------------------------------------------------- default-connection pool
\* A default connection is held from get_default_connection() to the end of
\* the block its binding lives in: to the return of create and of drop, to
\* the end of init's drop-previous block (so across the join of the drop
\* futures), and to the end of a drop future.  The futures the join still
\* held when it returned an error are dropped with what they hold.
InitHolds == IF sweep.pc \in {"i_conn", "i_sweep"} THEN 1 ELSE 0

FuturesHold ==
    IF sweep.pc = "i_sweep"
    THEN Cardinality({n \in PoolNames : sweep.sub[n] = "conn"})
    ELSE 0

OpsHold ==
    Cardinality({i \in Ids :
        \/ op[i].kind = "create" /\ op[i].pc \notin {"idle", "c_start", "done"}
        \/ op[i].kind = "drop" /\ op[i].pc \in {"d_conn", "d_db"}})

DefaultInUse == InitHolds + FuturesHold + OpsHold

\* pool.get(): a connection is handed out when the pool has one to spare;
\* a caller that is not served fails with the pool's error (exhaustion).
CanGetDefault == DefaultInUse < max_size

\* A capacity no run of the model exhausts.
AmpleSize == 1 + MaxOrphans + 2 * MaxIds

Init ==
    /\ \E S \in SUBSET Orphans :
          /\ dbs = {DefaultDb} \cup {get_db_name(k) : k \in S}
          /\ roles = {get_db_name(k) : k \in S}
    /\ owner = {}
    /\ tables = [i \in Ids |-> {}]
    /\ rows = [i \in Ids |-> NoRows]
    /\ tpriv = [i \in Ids |-> {}]
    /\ spriv = [i \in Ids |-> {}]
    /\ db_conns = [i \in Ids |-> 0]
    /\ op = [i \in Ids |-> IdleOp]
    /\ hist = [i \in Ids |-> NewHist]
    /\ sweep = IdleSweep
    /\ hookTables \in SUBSET Tables
    /\ hookKeeps \in BOOLEAN
    /\ max_size \in 1 .. AmpleSize
    /\ pool = NewPool

\* ------------------------------------------------------- returning a result
\* The operation of id returns res after the steps it was still to log; an
\* error is the failure of the step it was at ("?").  The caller's guard is
\* released by Finish.
Returned(id, res, steps) ==
    /\ op' = [op EXCEPT ![id].pc = "done", ![id].res = res, ![id].conn = 0,
                        ![id].todo = <<>>, ![id].failed = (res # "ok"),
                        ![id].log = @ \o steps]
    /\ hist' = [hist EXCEPT
          ![id].created = IF op[id].kind = "create"
                          THEN (IF res = "ok" THEN "ok" ELSE "failed") ELSE @,
          ![id].dropped = IF op[id].kind = "drop" /\ res = "ok" THEN TRUE ELSE @,
          ![id].prev = CASE op[id].kind = "create" -> "create"
                         [] op[id].kind = "clean" /\ res = "ok" -> "cleanok"
                         [] OTHER -> "other"]

Return(id, res) == Returned(id, res, <<>>)

\* ------------------------------------------------------------- error kinds
\* The error each primitive of the Backend Contract returns, by its
\* signature: Self::PoolError, Self::BuildError (both wrappers of bb8's
\* RunError), Self::ConnectionError and Self::QueryError.
BuildError(value) == <<"BuildError", value>>

PoolError(value) == <<"PoolError", value>>

Err_get_default_connection == PoolError("RunError")

Err_create_connection_pool == BuildError("RunError")

Err_establish_connection == <<"ConnectionError", "ConnectionError">>

Err_execute_query == <<"QueryError", "Error">>

\* impl From<BuildError> for BackendError: Self::Build(value)
From_BuildError(value) == <<"Build", value>>

\* Mutant: the pool wrapper is mapped to the Build variant.
From_PoolError_AsBuild(value) == <<"Build", value>>

\* impl From<PoolError> for BackendError: Self::Pool(value)
From_PoolError(value) == <<"Pool", value>>

\* The engine adapter's errors: the Connection and the Query variant.
From_ConnectionError(value) == <<"Connection", value>>

From_QueryError(value) == <<"Query", value>>

\* map_err(Into::into): the From of the error's type.
Into(err) ==
    CASE err[1] = "BuildError" -> From_BuildError(err)
      [] err[1] = "PoolError" -> From_PoolError(err)
      [] err[1] = "ConnectionError" -> From_ConnectionError(err)
      [] err[1] = "QueryError" -> From_QueryError(err)

\* The variant of a BackendError.
Kind(e) == e[1]

\* .map_err(Into::into)?: the operation returns the converted error.
Throw(id, err) == Return(id, Kind(Into(err)))

\* The step named step went through: the operation is at its next await.
Goto(id, pc, step) ==
    op' = [op EXCEPT ![id].pc = pc, ![id].log = Append(@, step)]

\* -------------------------------------------------------------------- create
create_call(id, W) ==
    /\ op[id].pc = "idle"
    /\ hist[id].created = "no"
    /\ \E r \in BOOLEAN, w \in W :
          /\ Acquire(w)
          /\ op' = [op EXCEPT ![id] = [IdleOp EXCEPT !.kind = "create",
                        !.pc = "c_start", !.restricted = r, !.w = w]]
          /\ hist' = [hist EXCEPT ![id].mode = r, ![id].w = w]
    /\ UNCHANGED <<engine, db_conns, sweep, hook, max_size, pool>>

create_get_default_connection(id) ==
    /\ op[id].pc = "c_start"
    /\ \/ /\ CanGetDefault
          /\ Goto(id, "c_conn", "get_default_connection")
          /\ UNCHANGED hist
       \/ Throw(id, Err_get_default_connection)
    /\ UNCHANGED <<engine, db_conns, sweep, hook, max_size, pool>>

create_create_database(id) ==
    /\ op[id].pc = "c_conn"
    /\ \/ /\ get_db_name(id) \notin dbs
          /\ dbs' = dbs \cup {get_db_name(id)}
          /\ Goto(id, "c_db", "create_database")
          /\ hist' = [hist EXCEPT ![id].dbMade = TRUE]
       \/ Throw(id, Err_execute_query) /\ UNCHANGED dbs
    /\ UNCHANGED <<roles, owner, tables, rows, tpriv, spriv, db_conns, sweep, hook, max_size, pool>>

create_create_role(id) ==
    /\ op[id].pc = "c_db"
    /\ \/ /\ get_db_name(id) \notin roles
          /\ roles' = roles \cup {get_db_name(id)}
          /\ Goto(id, "c_role", "create_role")
          /\ UNCHANGED hist
       \/ Throw(id, Err_execute_query) /\ UNCHANGED roles
    /\ UNCHANGED <<dbs, owner, tables, rows, tpriv, spriv, db_conns, sweep, hook, max_size, pool>>

\* Restricted: establish_privileged_database_connection(db_id)
create_establish_privileged(id) ==
    /\ op[id].pc = "c_role"
    /\ op[id].restricted
    /\ \/ /\ get_db_name(id) \in dbs
          /\ op' = [op EXCEPT ![id].pc = "c_priv", ![id].conn = 1,
                      ![id].log = Append(@, "establish_privileged")]
          /\ UNCHANGED hist
       \/ Throw(id, Err_establish_connection)
    /\ UNCHANGED <<engine, db_conns, sweep, hook, max_size, pool>>

\* Restricted: create_entities(conn), which hands the connection back or not.
create_create_entities(id) ==
    /\ op[id].pc = "c_priv"
    /\ tables' = [tables EXCEPT ![id] =
                     IF get_db_name(id) \in dbs THEN @ \cup hookTables ELSE @]
    /\ IF hookKeeps
       THEN op' = [op EXCEPT ![id].pc = "c_ent",
                             ![id].log = Append(@, "create_entities")]
       ELSE op' = [op EXCEPT ![id].pc = "c_lost", ![id].conn = 0,
                             ![id].log = Append(@, "create_entities")]
    /\ UNCHANGED <<dbs, roles, owner, rows, tpriv, spriv, db_conns, hist, sweep, hook, max_size, pool>>

\* Mutant: the connection the hook consumed is used again.
create_reestablish_privileged_Reuses(id) ==
    /\ op[id].pc = "c_lost"
    /\ op' = [op EXCEPT ![id].pc = "c_ent", ![id].conn = 1]
    /\ UNCHANGED <<engine, db_conns, hist, sweep, hook, max_size, pool>>

\* Restricted: None => establish_connection().await?
create_reestablish_privileged(id) ==
    /\ op[id].pc = "c_lost"
    /\ \/ /\ get_db_name(id) \in dbs
          /\ op' = [op EXCEPT ![id].pc = "c_ent", ![id].conn = 2,
                      ![id].log = Append(@, "establish_privileged")]
          /\ UNCHANGED hist
       \/ Throw(id, Err_establish_connection)
    /\ UNCHANGED <<engine, db_conns, sweep, hook, max_size, pool>>

\* Mutant: the table privileges are granted before the hook has run.
create_grant_table_privileges_BeforeHook(id) ==
    /\ op[id].pc = "c_priv"
    /\ \/ /\ get_db_name(id) \in dbs
          /\ get_db_name(id) \in roles
          /\ tpriv' = [tpriv EXCEPT ![id] = tables[id]]
          /\ Goto(id, "c_gt", "grant_table_privileges")
          /\ UNCHANGED hist
       \/ Throw(id, Err_execute_query) /\ UNCHANGED tpriv
    /\ UNCHANGED <<dbs, roles, owner, tables, rows, spriv, db_conns, sweep, hook, max_size, pool>>

\* Mutant: the table privileges are never granted to the restricted role.
create_grant_table_privileges_Skipped(id) ==
    /\ op[id].pc = "c_ent"
    /\ \/ /\ get_db_name(id) \in dbs
          /\ get_db_name(id) \in roles
          /\ Goto(id, "c_gt", "grant_table_privileges")
          /\ UNCHANGED <<hist, tpriv>>
       \/ Throw(id, Err_execute_query) /\ UNCHANGED tpriv
    /\ UNCHANGED <<dbs, roles, owner, tables, rows, spriv, db_conns, sweep, hook, max_size, pool>>

\* Restricted: grant_restricted_table_privileges on the privileged connection.
create_grant_table_privileges(id) ==
    /\ op[id].pc = "c_ent"
    /\ \/ /\ get_db_name(id) \in dbs
          /\ get_db_name(id) \in roles
          /\ tpriv' = [tpriv EXCEPT ![id] = tables[id]]
          /\ Goto(id, "c_gt", "grant_table_privileges")
          /\ UNCHANGED hist
       \/ Throw(id, Err_execute_query) /\ UNCHANGED tpriv
    /\ UNCHANGED <<dbs, roles, owner, tables, rows, spriv, db_conns, sweep, hook, max_size, pool>>

\* put_database_connection: the connection is stored under db_id.
put_database_connection(id, conn) ==
    db_conns' = [db_conns EXCEPT ![id] = conn]

\* Restricted: grant_restricted_sequence_privileges, then the connection is
\* stored for reuse when cleaning (no await in between).
create_grant_sequence_privileges(id) ==
    /\ op[id].pc = "c_gt"
    /\ \/ /\ get_db_name(id) \in dbs
          /\ get_db_name(id) \in roles
          /\ spriv' = [spriv EXCEPT ![id] = tables[id]]
          /\ put_database_connection(id, op[id].conn)
          /\ op' = [op EXCEPT ![id].pc = "c_pool", ![id].conn = 0,
                      ![id].log = @ \o <<"grant_sequence_privileges",
                                         "put_database_connection">>]
          /\ UNCHANGED hist
       \/ Throw(id, Err_execute_query) /\ UNCHANGED <<spriv, db_conns>>
    /\ UNCHANGED <<dbs, roles, owner, tables, rows, tpriv, sweep, hook, max_size, pool>>

\* Unrestricted: grant_database_ownership on the default connection.
create_grant_database_ownership(id) ==
    /\ op[id].pc = "c_role"
    /\ ~op[id].restricted
    /\ \/ /\ get_db_name(id) \in dbs
          /\ get_db_name(id) \in roles
          /\ owner' = owner \cup {get_db_name(id)}
          /\ Goto(id, "c_own", "grant_database_ownership")
          /\ UNCHANGED hist
       \/ Throw(id, Err_execute_query) /\ UNCHANGED owner
    /\ UNCHANGED <<dbs, roles, tables, rows, tpriv, spriv, db_conns, sweep, hook, max_size, pool>>

\* Unrestricted: establish_restricted_database_connection(db_id)
create_establish_restricted(id) ==
    /\ op[id].pc = "c_own"
    /\ \/ /\ get_db_name(id) \in dbs
          /\ get_db_name(id) \in roles
          /\ Goto(id, "c_rconn", "establish_restricted")
          /\ UNCHANGED hist
       \/ Throw(id, Err_establish_connection)
    /\ UNCHANGED <<engine, db_conns, sweep, hook, max_size, pool>>

\* Mutant: the connection the unrestricted hook hands back is retained.
create_create_entities_unrestricted_Retains(id) ==
    /\ op[id].pc = "c_rconn"
    /\ tables' = [tables EXCEPT ![id] =
                     IF DdlSucceeds(id) THEN @ \cup hookTables ELSE @]
    /\ Goto(id, "c_pool", "create_entities")
    /\ db_conns' = [db_conns EXCEPT ![id] = IF hookKeeps THEN 1 ELSE @]
    /\ UNCHANGED <<dbs, roles, owner, rows, tpriv, spriv, hist, sweep, hook, max_size, pool>>

\* Unrestricted: let _ = create_entities(conn) -- nothing is retained.
create_create_entities_unrestricted(id) ==
    /\ op[id].pc = "c_rconn"
    /\ tables' = [tables EXCEPT ![id] =
                     IF DdlSucceeds(id) THEN @ \cup hookTables ELSE @]
    /\ Goto(id, "c_pool", "create_entities")
    /\ UNCHANGED <<dbs, roles, owner, rows, tpriv, spriv, db_conns, hist, sweep, hook, max_size, pool>>

\* create_connection_pool(db_id), then Ok(pool).
create_create_connection_pool(id) ==
    /\ op[id].pc = "c_pool"
    /\ \/ Returned(id, "ok", <<"create_connection_pool">>)
       \/ Throw(id, Err_create_connection_pool)
    /\ UNCHANGED <<engine, db_conns, sweep, hook, max_size, pool>>

create(id, W) ==
    \/ create_call(id, W)
    \/ create_get_default_connection(id)
    \/ create_create_database(id)
    \/ create_create_role(id)
    \/ create_establish_privileged(id)
    \/ create_create_entities(id)
    \/ create_reestablish_privileged(id)
    \/ create_grant_table_privileges(id)
    \/ create_grant_sequence_privileges(id)
    \/ create_grant_database_ownership(id)
    \/ create_establish_restricted(id)
    \/ create_create_entities_unrestricted(id)
    \/ create_create_connection_pool(id)

\* --------------------------------------------------------------------- clean
\* The tables of a database in the order get_table_names lists them.
RECURSIVE TableList(_)
TableList(S) ==
    IF S = {} THEN <<>>
    ELSE LET t == CHOOSE x \in S : \A y \in S : x <= y
         IN <<t>> \o TableList(S \ {t})

\* get_database_connection: the entry is taken out of the map; taking a
\* missing entry is fatal.
HasConnection(id) == db_conns[id] # 0

\* Mutant: clean uses the retained connection and leaves it in the map.
clean_call_Aliases(id, W) ==
    /\ op[id].pc = "idle"
    /\ hist[id].created # "no"
    /\ HasConnection(id)
    /\ \E w \in W :
          /\ Acquire(w)
          /\ op' = [op EXCEPT ![id] = [IdleOp EXCEPT !.kind = "clean",
                        !.pc = "k_conn", !.w = w, !.conn = db_conns[id],
                        !.log = <<"get_database_connection">>,
                        !.preTables = tables[id], !.preRows = rows[id],
                        !.preConn = db_conns[id],
                        !.after = hist[id].prev,
                        !.late = hist[id].dropped]]
          /\ hist' = [hist EXCEPT ![id].prev = "other"]
    /\ UNCHANGED <<engine, db_conns, sweep, hook, max_size, pool>>

\* clean(db_id) up to its first await: the retained connection is taken.
clean_call(id, W) ==
    /\ op[id].pc = "idle"
    /\ hist[id].created # "no"
    /\ \E w \in W :
          /\ Acquire(w)
          /\ IF HasConnection(id)
             THEN /\ op' = [op EXCEPT ![id] = [IdleOp EXCEPT !.kind = "clean",
                               !.pc = "k_conn", !.w = w, !.conn = db_conns[id],
                               !.log = <<"get_database_connection">>,
                               !.preTables = tables[id], !.preRows = rows[id],
                               !.preConn = db_conns[id],
                               !.after = hist[id].prev,
                               !.late = hist[id].dropped]]
                  /\ db_conns' = [db_conns EXCEPT ![id] = 0]
             ELSE /\ op' = [op EXCEPT ![id] = [IdleOp EXCEPT !.kind = "clean",
                               !.pc = "done", !.w = w, !.res = "panic",
                               !.after = hist[id].prev,
                               !.late = hist[id].dropped]]
                  /\ UNCHANGED db_conns
          /\ hist' = [hist EXCEPT ![id].prev = "other"]
    /\ UNCHANGED <<engine, sweep, hook, max_size, pool>>

\* get_table_names(&mut conn)
clean_get_table_names(id) ==
    /\ op[id].pc = "k_conn"
    /\ \/ /\ get_db_name(id) \in dbs
          /\ op' = [op EXCEPT ![id].pc = "k_trunc",
                              ![id].todo = TableList(tables[id]),
                              ![id].log = Append(@, "get_table_names")]
          /\ UNCHANGED hist
       \/ Throw(id, Err_execute_query)
    /\ UNCHANGED <<engine, db_conns, sweep, hook, max_size, pool>>

\* Mutant: the batch goes through the listed tables without truncating them.
clean_truncate_table_Skips(id) ==
    /\ op[id].pc = "k_trunc"
    /\ op[id].todo # <<>>
    /\ \/ /\ get_db_name(id) \in dbs
          /\ Head(op[id].todo) \in tables[id]
          /\ op' = [op EXCEPT ![id].todo = Tail(@),
                              ![id].log = Append(@, "truncate_table")]
          /\ UNCHANGED <<hist, rows>>
       \/ Throw(id, Err_execute_query) /\ UNCHANGED rows
    /\ UNCHANGED <<dbs, roles, owner, tables, tpriv, spriv, db_conns, sweep, hook, max_size, pool>>

\* batch_execute_query(stmts, &mut conn): one truncate statement per listed
\* table, in order; the batch may fail after some of them were applied.
clean_truncate_table(id) ==
    /\ op[id].pc = "k_trunc"
    /\ op[id].todo # <<>>
    /\ \/ /\ get_db_name(id) \in dbs
          /\ Head(op[id].todo) \in tables[id]
          /\ rows' = [rows EXCEPT ![id][Head(op[id].todo)] = 0]
          /\ op' = [op EXCEPT ![id].todo = Tail(@),
                              ![id].log = Append(@, "truncate_table")]
          /\ UNCHANGED hist
       \/ Throw(id, Err_execute_query) /\ UNCHANGED rows
    /\ UNCHANGED <<dbs, roles, owner, tables, tpriv, spriv, db_conns, sweep, hook, max_size, pool>>

\* Mutant: clean returns Ok without storing the connection back.
clean_put_back_Forgets(id) ==
    /\ op[id].pc = "k_trunc"
    /\ op[id].todo = <<>>
    /\ \/ /\ get_db_name(id) \in dbs
          /\ Return(id, "ok")
       \/ Throw(id, Err_execute_query)
    /\ UNCHANGED <<engine, db_conns, sweep, hook, max_size, pool>>

\* The batch is through: the connection is stored back and clean returns Ok.
clean_put_back(id) ==
    /\ op[id].pc = "k_trunc"
    /\ op[id].todo = <<>>
    /\ \/ /\ get_db_name(id) \in dbs
          /\ put_database_connection(id, op[id].conn)
          /\ Returned(id, "ok", <<"put_database_connection">>)
       \/ Throw(id, Err_execute_query) /\ UNCHANGED db_conns
    /\ UNCHANGED <<engine, sweep, hook, max_size, pool>>

clean(id, W) ==
    \/ clean_call(id, W)
    \/ clean_get_table_names(id)
    \/ clean_truncate_table(id)
    \/ clean_put_back(id)

\* ---------------------------------------------------------------------- drop
\* drop(db_id, is_restricted) up to its first await: a restricted database's
\* retained connection is taken and discarded.
drop_call(id, W) ==
    /\ op[id].pc = "idle"
    /\ hist[id].created # "no"
    /\ \E r \in {hist[id].mode}, w \in W :
          /\ Acquire(w)
          /\ IF r /\ ~HasConnection(id)
             THEN /\ op' = [op EXCEPT ![id] = [IdleOp EXCEPT !.kind = "drop",
                               !.pc = "done", !.restricted = r, !.w = w,
                               !.res = "panic", !.after = hist[id].prev,
                               !.late = hist[id].dropped]]
                  /\ UNCHANGED db_conns
             ELSE /\ op' = [op EXCEPT ![id] = [IdleOp EXCEPT !.kind = "drop",
                               !.pc = "d_start", !.restricted = r, !.w = w,
                               !.log = IF r THEN <<"get_database_connection">>
                                            ELSE <<>>,
                               !.after = hist[id].prev,
                               !.late = hist[id].dropped]]
                  /\ db_conns' = [db_conns EXCEPT ![id] = IF r THEN 0 ELSE @]
          /\ hist' = [hist EXCEPT ![id].prev = "other"]
    /\ UNCHANGED <<engine, sweep, hook, max_size, pool>>

drop_get_default_connection(id) ==
    /\ op[id].pc = "d_start"
    /\ \/ /\ CanGetDefault
          /\ Goto(id, "d_conn", "get_default_connection")
          /\ UNCHANGED hist
       \/ Throw(id, Err_get_default_connection)
    /\ UNCHANGED <<engine, db_conns, sweep, hook, max_size, pool>>

\* Mutant: drop goes on to the role without dropping the database.
drop_drop_database_Skipped(id) ==
    /\ op[id].pc = "d_conn"
    /\ \/ Goto(id, "d_db", "drop_database") /\ UNCHANGED <<hist, engine>>
       \/ Throw(id, Err_execute_query) /\ UNCHANGED engine
    /\ UNCHANGED <<db_conns, sweep, hook, max_size, pool>>

\* Mutant: the error of "drop database" is swallowed and drop goes on.
drop_drop_database_Continues(id) ==
    /\ op[id].pc = "d_conn"
    /\ \/ /\ CanDropDb(get_db_name(id))
          /\ DropDb(get_db_name(id))
          /\ Goto(id, "d_db", "drop_database")
          /\ UNCHANGED hist
       \/ /\ op' = [op EXCEPT ![id].pc = "d_db", ![id].failed = TRUE]
          /\ UNCHANGED <<hist, engine>>
    /\ UNCHANGED <<db_conns, sweep, hook, max_size, pool>>

\* execute_query(drop_database(db_name)) on the default connection.
drop_drop_database(id) ==
    /\ op[id].pc = "d_conn"
    /\ \/ /\ CanDropDb(get_db_name(id))
          /\ DropDb(get_db_name(id))
          /\ Goto(id, "d_db", "drop_database")
          /\ UNCHANGED hist
       \/ Throw(id, Err_execute_query) /\ UNCHANGED engine
    /\ UNCHANGED <<db_conns, sweep, hook, max_size, pool>>

\* Mutant: drop returns Ok without dropping the attached role.
drop_drop_role_Skipped(id) ==
    /\ op[id].pc = "d_db"
    /\ \/ Return(id, "ok")
       \/ Throw(id, Err_execute_query)
    /\ UNCHANGED <<engine, db_conns, sweep, hook, max_size, pool>>

\* execute_query(drop_role(db_name)) on the default connection, then Ok.
drop_drop_role(id) ==
    /\ op[id].pc = "d_db"
    /\ \/ /\ get_db_name(id) \in roles
          /\ get_db_name(id) \notin owner
          /\ roles' = roles \ {get_db_name(id)}
          /\ Returned(id, "ok", <<"drop_role">>)
       \/ Throw(id, Err_execute_query) /\ UNCHANGED roles
    /\ UNCHANGED <<dbs, owner, tables, rows, tpriv, spriv, db_conns, sweep, hook, max_size, pool>>

drop(id, W) ==
    \/ drop_call(id, W)
    \/ drop_get_default_connection(id)
    \/ drop_drop_database(id)
    \/ drop_drop_role(id)

\* ------------------------------------------------------------------- callers
\* The caller is done with the returned result: its guard, if any, is dropped.
Finish(id) ==
    /\ op[id].pc = "done"
    /\ op' = [op EXCEPT ![id] = IdleOp]
    /\ UNCHANGED <<engine, db_conns, hist, sweep, hook, max_size, pool>>

\* The holder of a database inserts a row under the attached role, when no
\* lifecycle operation is in flight for the database.
Insert(id) ==
    /\ op[id].pc = "idle"
    /\ \E t \in Tables :
          /\ DmlSucceeds(id, t)
          /\ rows[id][t] < MaxRows
          /\ rows' = [rows EXCEPT ![id][t] = @ + 1]
    /\ hist' = [hist EXCEPT ![id].prev = "other"]
    /\ UNCHANGED <<dbs, roles, owner, tables, tpriv, spriv, db_conns, op, sweep, hook, max_size, pool>>

\* ---------------------------------------------------------------------- init
\* get_previous_database_names: the databases named with the pool's prefix.
PreviousDatabaseNames == {n \in dbs : Matches(n)}

\* The ids whose create is in flight (called, not yet returned).
Creating == {id \in Ids : op[id].kind = "create" /\ op[id].pc \notin {"idle", "done"}}

\* init() up to its first await: nothing happens unless drop-previous is set.
init_call(W) ==
    /\ sweep.pc = "idle"
    /\ \E flag \in BOOLEAN, w \in W :
          /\ Acquire(w)
          /\ sweep' = [IdleSweep EXCEPT !.flag = flag, !.w = w,
                          !.pre = PreviousDatabaseNames,
                          !.pc = IF flag THEN "i_start" ELSE "done",
                          !.res = IF flag THEN "-" ELSE "ok"]
    /\ UNCHANGED <<engine, db_conns, op, hist, hook, max_size, pool>>

\* Mutant: every failure of init is reported as a failed statement.
SweepReturn_AlwaysQuery(res) == [sweep EXCEPT !.pc = "done", !.res = "Query"]

\* "?": init returns the error at once.
SweepReturn(res) == [sweep EXCEPT !.pc = "done", !.res = res]

init_get_default_connection ==
    /\ sweep.pc = "i_start"
    /\ \/ /\ CanGetDefault
          /\ sweep' = [sweep EXCEPT !.pc = "i_conn", !.nconn = @ + 1]
       \/ sweep' = SweepReturn(Kind(Into(Err_get_default_connection)))
    /\ UNCHANGED <<engine, db_conns, op, hist, hook, max_size, pool>>

\* The names are enumerated and one drop future per name is built; joining no
\* future at all is Ok at once.
init_get_previous_database_names ==
    /\ sweep.pc = "i_conn"
    /\ \/ sweep' = [sweep EXCEPT
              !.names = PreviousDatabaseNames,
              !.sub = [n \in PoolNames |->
                          IF n \in PreviousDatabaseNames THEN "todo" ELSE "-"],
              !.nstmt = @ + 1,
              !.during = Creating,
              !.pc = IF PreviousDatabaseNames = {} THEN "done" ELSE "i_sweep",
              !.res = IF PreviousDatabaseNames = {} THEN "ok" ELSE "-"]
       \/ sweep' = [SweepReturn(Kind(Into(Err_execute_query))) EXCEPT !.nstmt = @ + 1]
    /\ UNCHANGED <<engine, db_conns, op, hist, hook, max_size, pool>>

\* The drop future of name n: get_default_connection().  try_join_all returns
\* the first error and drops the futures still pending.
init_drop_get_default_connection(n) ==
    /\ sweep.pc = "i_sweep"
    /\ sweep.sub[n] = "todo"
    /\ \/ /\ CanGetDefault
          /\ sweep' = [sweep EXCEPT !.sub[n] = "conn", !.nconn = @ + 1]
       \/ sweep' = [SweepReturn(Kind(Into(Err_get_default_connection))) EXCEPT !.sub[n] = "nopool"]
    /\ UNCHANGED <<engine, db_conns, op, hist, hook, max_size, pool>>

\* Mutant: the join is over as soon as one drop future is (select, not join).
AllDropped_FirstDone(sub) == \E m \in PoolNames : sub[m] = "ok"

\* try_join_all is Ok when every drop future is.
AllDropped(sub) == \A m \in PoolNames : sub[m] \in {"-", "ok"}

\* Mutant: the drop future of name n drops the role of that name as well.
init_drop_database_AndRole(n) ==
    /\ sweep.pc = "i_sweep"
    /\ sweep.sub[n] = "conn"
    /\ \/ /\ CanDropDb(n)
          /\ dbs' = dbs \ {n}
          /\ roles' = roles \ {n}
          /\ owner' = owner \ {n}
          /\ tables' = [i \in Ids |-> IF get_db_name(i) = n THEN {} ELSE tables[i]]
          /\ rows' = [i \in Ids |-> IF get_db_name(i) = n THEN NoRows ELSE rows[i]]
          /\ tpriv' = [i \in Ids |-> IF get_db_name(i) = n THEN {} ELSE tpriv[i]]
          /\ spriv' = [i \in Ids |-> IF get_db_name(i) = n THEN {} ELSE spriv[i]]
          /\ LET sub == [sweep.sub EXCEPT ![n] = "ok"]
             IN sweep' = [sweep EXCEPT !.sub = sub, !.nstmt = @ + 2,
                             !.pc = IF AllDropped(sub) THEN "done" ELSE @,
                             !.res = IF AllDropped(sub) THEN "ok" ELSE @]
       \/ /\ sweep' = [SweepReturn(Kind(Into(Err_execute_query))) EXCEPT !.sub[n] = "failed",
                                                   !.nstmt = @ + 1]
          /\ UNCHANGED engine
    /\ UNCHANGED <<db_conns, op, hist, hook, max_size, pool>>

\* The drop future of name n: execute_query(drop_database(n)).
init_drop_database(n) ==
    /\ sweep.pc = "i_sweep"
    /\ sweep.sub[n] = "conn"
    /\ \/ /\ CanDropDb(n)
          /\ DropDb(n)
          /\ LET sub == [sweep.sub EXCEPT ![n] = "ok"]
             IN sweep' = [sweep EXCEPT !.sub = sub, !.nstmt = @ + 1,
                             !.pc = IF AllDropped(sub) THEN "done" ELSE @,
                             !.res = IF AllDropped(sub) THEN "ok" ELSE @]
       \/ /\ sweep' = [SweepReturn(Kind(Into(Err_execute_query))) EXCEPT !.sub[n] = "failed",
                                                   !.nstmt = @ + 1]
          /\ UNCHANGED engine
    /\ UNCHANGED <<db_conns, op, hist, hook, max_size, pool>>

\* The caller is done with init's result: its guard, if any, is dropped.
init_finish ==
    /\ sweep.pc = "done"
    /\ sweep' = IdleSweep
    /\ UNCHANGED <<engine, db_conns, op, hist, hook, max_size, pool>>

init(W) ==
    \/ init_call(W)
    \/ init_get_default_connection
    \/ init_get_previous_database_names
    \/ \E n \in PoolNames : init_drop_get_default_connection(n)
    \/ \E n \in PoolNames : init_drop_database(n)
    \/ init_finish

\* ---------------------------------------------------------------- outer pool
MaxPulls == 3

\* No pool call is in flight and no guard is outstanding.
AtRest ==
    \A i \in Ids : pool.task[i] = "-" /\ pool.imm[i] = 0 /\ pool.mut[i] = 0

\* Minting a new DatabaseId: an id nothing was ever called for.
Unused(id) ==
    hist[id].created = "no" /\ op[id].pc = "idle" /\ pool.task[id] = "-"

Fresh(id) == Unused(id) /\ \A j \in Ids : j < id => ~Unused(j)

\* Mutant: pull_immutable() reads the first idle entry without popping it.
pull_immutable_pop_Peeks ==
    /\ pool.alive
    /\ pool.calls < MaxPulls
    /\ pool.idle # <<>>
    /\ pool.task[Head(pool.idle)] = "-"
    /\ pool' = [pool EXCEPT !.task[Head(pool.idle)] = "pull",
                            !.calls = @ + 1, !.seq = @ /\ AtRest]
    /\ UNCHANGED <<engine, db_conns, op, hist, sweep, hook, max_size>>

\* pull_immutable(), idle queue non-empty: one entry is popped, to be cleaned.
pull_immutable_pop ==
    /\ pool.alive
    /\ pool.calls < MaxPulls
    /\ pool.idle # <<>>
    /\ pool' = [pool EXCEPT !.idle = Tail(@), !.task[Head(pool.idle)] = "pull",
                            !.calls = @ + 1, !.seq = @ /\ AtRest]
    /\ UNCHANGED <<engine, db_conns, op, hist, sweep, hook, max_size>>

\* Mutant: pull_immutable() mints a new id even when an entry is idle.
pull_immutable_mint_Always ==
    /\ pool.alive
    /\ pool.calls < MaxPulls
    /\ \E id \in Ids :
          /\ Fresh(id)
          /\ pool' = [pool EXCEPT !.task[id] = "pull", !.calls = @ + 1,
                                  !.seq = @ /\ AtRest]
    /\ UNCHANGED <<engine, db_conns, op, hist, sweep, hook, max_size>>

\* pull_immutable(), idle queue empty: a new id is minted, to be created.
pull_immutable_mint ==
    /\ pool.alive
    /\ pool.calls < MaxPulls
    /\ pool.idle = <<>>
    /\ \E id \in Ids :
          /\ Fresh(id)
          /\ pool' = [pool EXCEPT !.task[id] = "pull", !.calls = @ + 1,
                                  !.seq = @ /\ AtRest]
    /\ UNCHANGED <<engine, db_conns, op, hist, sweep, hook, max_size>>

\* create_mutable(): always a new id.
create_mutable_mint ==
    /\ pool.alive
    /\ \E id \in Ids :
          /\ Fresh(id)
          /\ pool' = [pool EXCEPT !.task[id] = "mut", !.seq = FALSE]
    /\ UNCHANGED <<engine, db_conns, op, hist, sweep, hook, max_size>>

\* The pool calls create(id, Restricted) for pull_immutable and
\* create(id, Unrestricted) for create_mutable.
pool_create(id) ==
    /\ pool.task[id] \in {"pull", "mut"}
    /\ create_call(id, {"none"})
    /\ op'[id].restricted = (pool.task[id] = "pull")

\* The pool calls clean(id) on the entry it popped.
pool_clean(id) ==
    /\ pool.task[id] = "pull"
    /\ clean_call(id, {"none"})

\* The pool calls drop(id, Unrestricted) when a Mutable guard is released and
\* drop(id, Restricted) for an idle entry at teardown.
pool_drop(id) ==
    /\ pool.task[id] \in {"release", "teardown"}
    /\ drop_call(id, {"none"})
    /\ op'[id].restricted = (pool.task[id] = "teardown")

\* The call of the pool is over with the result res of its operation.
PoolReturn(id, res) ==
    [pool EXCEPT !.task[id] = "-", !.failed = @ \/ res # "ok",
                 !.creates = IF op[id].kind = "create" THEN @ + 1 ELSE @,
                 !.cleans = IF op[id].kind = "clean" THEN @ + 1 ELSE @]

\* pull_immutable() returns: an Immutable guard when create or clean was Ok.
pull_immutable_return(id) ==
    /\ pool.task[id] = "pull"
    /\ op[id].pc = "done"
    /\ op' = [op EXCEPT ![id] = IdleOp]
    /\ pool' = IF op[id].res = "ok"
               THEN [PoolReturn(id, "ok") EXCEPT !.imm[id] = @ + 1,
                                                 !.pulls = @ + 1]
               ELSE PoolReturn(id, op[id].res)
    /\ UNCHANGED <<engine, db_conns, hist, sweep, hook, max_size>>

\* create_mutable() returns: a Mutable guard when create was Ok.
create_mutable_return(id) ==
    /\ pool.task[id] = "mut"
    /\ op[id].pc = "done"
    /\ op' = [op EXCEPT ![id] = IdleOp]
    /\ pool' = IF op[id].res = "ok"
               THEN [PoolReturn(id, "ok") EXCEPT !.mut[id] = @ + 1]
               ELSE PoolReturn(id, op[id].res)
    /\ UNCHANGED <<engine, db_conns, hist, sweep, hook, max_size>>

\* Mutant: an Immutable guard's release drops the database like a Mutable's.
release_immutable_Drops(id) ==
    /\ pool.imm[id] > 0
    /\ pool.task[id] = "-"
    /\ pool' = [pool EXCEPT !.imm[id] = @ - 1, !.task[id] = "release"]
    /\ UNCHANGED <<engine, db_conns, op, hist, sweep, hook, max_size>>

\* Immutable guard release: the entry goes back onto the idle queue.
release_immutable(id) ==
    /\ pool.imm[id] > 0
    /\ pool' = [pool EXCEPT !.imm[id] = @ - 1, !.idle = Append(@, id)]
    /\ UNCHANGED <<engine, db_conns, op, hist, sweep, hook, max_size>>

\* Mutant: a Mutable guard's release returns the database to the idle queue.
release_mutable_Pushes(id) ==
    /\ pool.mut[id] > 0
    /\ pool' = [pool EXCEPT !.mut[id] = @ - 1, !.idle = Append(@, id)]
    /\ UNCHANGED <<engine, db_conns, op, hist, sweep, hook, max_size>>

\* Mutable guard release: the database is to be dropped.
release_mutable(id) ==
    /\ pool.mut[id] > 0
    /\ pool.task[id] = "-"
    /\ pool' = [pool EXCEPT !.mut[id] = @ - 1, !.task[id] = "release"]
    /\ UNCHANGED <<engine, db_conns, op, hist, sweep, hook, max_size>>

\* The drop of a released Mutable guard, or of an entry at teardown, is over.
pool_drop_return(id) ==
    /\ pool.task[id] \in {"release", "teardown"}
    /\ op[id].pc = "done"
    /\ op' = [op EXCEPT ![id] = IdleOp]
    /\ pool' = PoolReturn(id, op[id].res)
    /\ UNCHANGED <<engine, db_conns, hist, sweep, hook, max_size>>

\* Mutant: teardown empties the idle queue without dropping its entries.
teardown_call_Forgets ==
    /\ pool.alive
    /\ \A i \in Ids : pool.task[i] \notin {"pull", "mut"}
    /\ pool' = [pool EXCEPT !.alive = FALSE, !.idle = <<>>, !.orderly = AtRest]
    /\ UNCHANGED <<engine, db_conns, op, hist, sweep, hook, max_size>>

\* Pool teardown: the idle queue is drained, every entry of it to be dropped.
teardown_call ==
    /\ pool.alive
    /\ \A i \in Ids : pool.task[i] \notin {"pull", "mut"}
    /\ pool' = [pool EXCEPT !.alive = FALSE, !.down = pool.idle,
                            !.idle = <<>>, !.orderly = AtRest]
    /\ UNCHANGED <<engine, db_conns, op, hist, sweep, hook, max_size>>

\* Teardown goes on to the next entry it drained.
teardown_next ==
    /\ ~pool.alive
    /\ pool.down # <<>>
    /\ \A i \in Ids : pool.task[i] # "teardown"
    /\ pool.task[Head(pool.down)] = "-"
    /\ pool' = [pool EXCEPT !.down = Tail(@),
                            !.task[Head(pool.down)] = "teardown"]
    /\ UNCHANGED <<engine, db_conns, op, hist, sweep, hook, max_size>>

\* ------------------------------------------------------------ specifications
\* The lifecycle of every id, each operation called the way the library's own
\* callers do (no guard), on an engine without leftovers.
InitLife ==
    /\ Init
    /\ dbs = {DefaultDb}
    /\ max_size = AmpleSize

NextLife ==
    \E id \in Ids :
        \/ create(id, {"none"})
        \/ clean(id, {"none"})
        \/ drop(id, {"none"})
        \/ Finish(id)
        \/ Insert(id)

SpecLife == InitLife /\ [][NextLife]_vars

\* init alongside the operations of the ids of SweepIds, each task called
\* bare, under lock_read or under lock_drop, with a backend whose hook
\* creates no table, on an engine holding any leftovers of an earlier run.
MaxSweepIds == 1
SweepIds == 1 .. MaxSweepIds

InitSweep ==
    /\ Init
    /\ hookTables = {}
    /\ max_size = AmpleSize

Next ==
    \/ init(Wrappers)
    \/ \E id \in SweepIds :
          \/ create(id, Wrappers)
          \/ clean_call(id, Wrappers)
          \/ clean_get_table_names(id)
          \/ clean_put_back(id)
          \/ drop(id, Wrappers)
          \/ Finish(id)

Spec == InitSweep /\ [][Next]_vars

\* The outer pool over the lifecycle operations: pull_immutable,
\* create_mutable, guard releases and teardown in any interleaving.
InitPool ==
    /\ Init
    /\ dbs = {DefaultDb}
    /\ max_size = AmpleSize

NextPool ==
    \/ pull_immutable_pop
    \/ pull_immutable_mint
    \/ create_mutable_mint
    \/ teardown_call
    \/ teardown_next
    \/ \E id \in Ids :
          \/ pool_create(id)
          \/ create_get_default_connection(id)
          \/ create_create_database(id)
          \/ create_create_role(id)
          \/ create_establish_privileged(id)
          \/ create_create_entities(id)
          \/ create_reestablish_privileged(id)
          \/ create_grant_table_privileges(id)
          \/ create_grant_sequence_privileges(id)
          \/ create_grant_database_ownership(id)
          \/ create_establish_restricted(id)
          \/ create_create_entities_unrestricted(id)
          \/ create_create_connection_pool(id)
          \/ pool_clean(id)
          \/ clean_get_table_names(id)
          \/ clean_truncate_table(id)
          \/ clean_put_back(id)
          \/ pool_drop(id)
          \/ drop_get_default_connection(id)
          \/ drop_drop_database(id)
          \/ drop_drop_role(id)
          \/ pull_immutable_return(id)
          \/ create_mutable_return(id)
          \/ release_immutable(id)
          \/ release_mutable(id)
          \/ pool_drop_return(id)

SpecPool == InitPool /\ [][NextPool]_vars

\* init on a backend whose pool of default connections has any capacity from
\* 1 to MaxSize, alongside the create and drop of the ids of SweepIds (the
\* other holders of default connections), each called bare.
InitStartup ==
    /\ Init
    /\ hookTables = {}
    /\ max_size \in 1 .. MaxSize

NextStartup ==
    \/ init({"none"})
    \/ \E id \in SweepIds :
          \/ create(id, {"none"})
          \/ drop(id, {"none"})
          \/ Finish(id)

\* A backend call of init that is under way terminates, with its result or
\* with its error (a get_default_connection() that is not served ends with
\* the pool's error).
InitStep ==
    \/ init_get_default_connection
    \/ init_get_previous_database_names
    \/ \E n \in PoolNames : init_drop_get_default_connection(n)
    \/ \E n \in PoolNames : init_drop_database(n)

\* So does a backend call of a create or drop under way, and the caller of
\* an operation that returned lets go of the result.
OpProgress(id) ==
    \/ create_get_default_connection(id)
    \/ create_create_database(id)
    \/ create_create_role(id)
    \/ create_establish_privileged(id)
    \/ create_create_entities(id)
    \/ create_reestablish_privileged(id)
    \/ create_grant_table_privileges(id)
    \/ create_grant_sequence_privileges(id)
    \/ create_grant_database_ownership(id)
    \/ create_establish_restricted(id)
    \/ create_create_entities_unrestricted(id)
    \/ create_create_connection_pool(id)
    \/ drop_get_default_connection(id)
    \/ drop_drop_database(id)
    \/ drop_drop_role(id)
    \/ Finish(id)

SpecStartup ==
    /\ InitStartup
    /\ [][NextStartup]_vars
    /\ WF_vars(InitStep)
    /\ \A id \in SweepIds : WF_vars(OpProgress(id))

\* -------------------------------------------------------------------- claims
Done(id, kind) == op[id].kind = kind /\ op[id].pc = "done"

\* An operation of id that was called under lock_read or lock_drop and whose
\* caller has not released the guard yet.
Guarded(id) == op[id].pc # "idle" /\ op[id].w # "none"

OpStep(id) == op'[id] # op[id] /\ op[id].pc # "done"

C3_InitDropsPrevious ==
    (sweep.pc = "done" /\ sweep.res = "ok")
    => IF sweep.flag
       THEN sweep.pre \cap dbs = {}
       ELSE /\ sweep.nconn = 0
            /\ sweep.nstmt = 0
            /\ \A n \in PoolNames : sweep.sub[n] = "-"
            /\ \A k \in Orphans : get_db_name(k) \in sweep.pre => get_db_name(k) \in dbs

\* init with drop-previous enabled returned Ok after dropping two databases
\* (a leftover of an earlier run and a database a create had made).
C3_Witness ==
    /\ sweep.pc = "done" /\ sweep.res = "ok" /\ sweep.flag
    /\ Cardinality(sweep.pre) >= 2
    /\ \A n \in sweep.pre : sweep.sub[n] = "ok"

SweepError == sweep.pc = "done" /\ sweep.res # "ok" /\ sweep.names # {}

\* C4, as stated: when the sweep returns an error, a drop statement was
\* executed, successfully or not, for every enumerated name.
C4_EveryNameAttempted ==
    SweepError => \A n \in sweep.names : sweep.sub[n] \in {"ok", "failed"}

\* C4, amended: the first failure of a drop future makes init return that
\* one error at once: exactly one name's future failed and the error is of
\* its failing step's kind, the drops already executed stay executed, and the
\* futures still pending are dropped, so the drop statement of another name
\* may never be executed; no name's statement is executed twice.
C4_FirstFailureReturned ==
    SweepError =>
        /\ Cardinality({n \in sweep.names : sweep.sub[n] \in {"nopool", "failed"}}) = 1
        /\ \A n \in sweep.names :
              /\ sweep.sub[n] = "nopool" => sweep.res = "Pool"
              /\ sweep.sub[n] = "failed" => sweep.res = "Query"
              /\ sweep.sub[n] = "ok" => n \notin dbs
        /\ sweep.nstmt =
              1 + Cardinality({n \in sweep.names : sweep.sub[n] \in {"ok", "failed"}})

\* init returned the error of one name's drop statement while the drop
\* future of another name had not obtained its connection yet.
C4_Witness ==
    /\ SweepError
    /\ \E n, m \in sweep.names :
          /\ sweep.sub[n] = "failed"
          /\ sweep.sub[m] = "todo"

\* C5: when create(id, Restricted) has returned Ok, the database holds the
\* hook's tables, the role can manipulate the data of every table and can
\* change no schema (it does not own the database); when create(id,
\* Unrestricted) has returned Ok, the role owns the database and can do both.
C5_PrivilegeBoundary ==
    \A id \in Ids :
        (Done(id, "create") /\ op[id].res = "ok")
        => /\ tables[id] = hookTables
           /\ \A t \in tables[id] : DmlSucceeds(id, t)
           /\ DdlSucceeds(id) = ~op[id].restricted
           /\ (get_db_name(id) \in owner) = ~op[id].restricted

\* create(id, Restricted) returned Ok with a hook that created every table.
C5_Witness ==
    \E id \in Ids :
        /\ Done(id, "create") /\ op[id].res = "ok" /\ op[id].restricted
        /\ tables[id] = Tables

\* C6: when clean(id) has returned Ok, the database has the tables it had
\* when clean was called and every table has zero rows.
C6_CleanEmptiesTables ==
    \A id \in Ids :
        (Done(id, "clean") /\ op[id].res = "ok")
        => /\ tables[id] = op[id].preTables
           /\ \A t \in Tables : rows[id][t] = 0

\* clean returned Ok on a restricted database whose tables all held rows.
C6_Witness ==
    \E id \in Ids :
        /\ Done(id, "clean") /\ op[id].res = "ok"
        /\ hist[id].created = "ok" /\ hist[id].mode
        /\ op[id].preTables = Tables
        /\ \A t \in Tables : op[id].preRows[t] > 0

\* C7: a clean(id) called right after a clean(id) that returned Ok does not
\* hit the take-on-missing-id violation, and when it returns Ok the tables,
\* the rows and the retained connection of id are what they were when it was
\* called.
C7_CleanIdempotent ==
    \A id \in Ids :
        (Done(id, "clean") /\ op[id].after = "cleanok")
        => /\ op[id].res # "panic"
           /\ op[id].res = "ok" =>
                 /\ tables[id] = op[id].preTables
                 /\ rows[id] = op[id].preRows
                 /\ db_conns[id] = op[id].preConn
                 /\ db_conns[id] # 0

\* A second clean in a row returned Ok on a database with tables.
C7_Witness ==
    \E id \in Ids :
        /\ Done(id, "clean") /\ op[id].after = "cleanok" /\ op[id].res = "ok"
        /\ tables[id] # {}

\* C8: when drop(id, mode) has returned Ok after create(id, mode) returned
\* Ok, neither the database nor the role of id exists, and for mode
\* Restricted the map of retained connections has no entry for id.
C8_DropRemoves ==
    \A id \in Ids :
        (Done(id, "drop") /\ op[id].res = "ok" /\ hist[id].created = "ok")
        => /\ op[id].restricted = hist[id].mode
           /\ get_db_name(id) \notin dbs
           /\ get_db_name(id) \notin roles
           /\ op[id].restricted => db_conns[id] = 0

\* drop(id, Restricted) returned Ok after create(id, Restricted) did.
C8_Witness ==
    \E id \in Ids :
        /\ Done(id, "drop") /\ op[id].res = "ok" /\ op[id].restricted
        /\ hist[id].created = "ok"

\* C9: once drop(id, mode) has returned Ok, the database of id never exists
\* again (so that no connection to it can be established), and no clean or
\* drop called for id afterwards returns Ok: each returns an error or is
\* the fatal take-on-missing-id violation.
C9_DroppedIsTerminal ==
    \A id \in Ids :
        /\ hist[id].dropped => get_db_name(id) \notin dbs
        /\ (op[id].late /\ op[id].pc = "done") => op[id].res # "ok"

\* A drop called after a successful drop returned the error of its failed
\* "drop database" statement.
C9_Witness ==
    \E id \in Ids :
        /\ Done(id, "drop") /\ op[id].late /\ op[id].res = "Query"

\* C10, as stated: the drop(id, mode) called right after a create(id, mode)
\* that failed once the database was made does not hit the fatal
\* take-on-missing-id violation, and when it returns Ok the database and the
\* role are gone.
C10_DropAfterFailedCreate ==
    \A id \in Ids :
        ( /\ Done(id, "drop") /\ op[id].after = "create"
          /\ hist[id].created = "failed" /\ hist[id].dbMade )
        => /\ op[id].res # "panic"
           /\ op[id].res = "ok" =>
                 get_db_name(id) \notin dbs /\ get_db_name(id) \notin roles

\* What the engine and the map hold for id.
Own(id) ==
    <<get_db_name(id) \in dbs, get_db_name(id) \in roles,
      get_db_name(id) \in owner, tables[id], rows[id], tpriv[id], spriv[id],
      db_conns[id]>>

Steps(id) == {op[id].log[k] : k \in 1 .. Len(op[id].log)}

\* C11: a step of create, clean or drop that fails makes the operation return
\* that step's error at once; the failing step retains no connection; and
\* from then on, until the caller is done with the result, the operation
\* executes no step: it logs none, it never turns into a success, and what
\* the engine and the map hold for its id stays as it is.
C11_FailedStepReturns ==
    [][\A id \in Ids :
          /\ op'[id].failed =>
                /\ op'[id].pc = "done"
                /\ op'[id].res \in {"Pool", "Query", "Connection", "Build"}
          /\ (~op[id].failed /\ op'[id].failed) =>
                /\ db_conns'[id] = db_conns[id]
                /\ op'[id].log = op[id].log
          /\ op[id].failed =>
                /\ op'[id] \in {op[id], IdleOp}
                /\ Own(id)' = Own(id)]_vars

\* A restricted create returned the error of its failed sequence grant: no
\* connection is retained and no connection pool was built.
C11_Witness ==
    \E id \in Ids :
        /\ Done(id, "create") /\ op[id].failed /\ op[id].res = "Query"
        /\ "grant_table_privileges" \in Steps(id)
        /\ "put_database_connection" \notin Steps(id)
        /\ db_conns[id] = 0

\* The ids whose database exists.
PoolDbs == {id \in Ids : get_db_name(id) \in dbs}

\* pull_immutable() was called N times, each call when the pool was at rest
\* (every earlier guard released), each returned a guard, the last guard is
\* released, and nothing else was asked of the pool.
Sequential(N) ==
    /\ pool.seq /\ ~pool.failed /\ pool.alive /\ AtRest
    /\ pool.calls = N /\ pool.pulls = N

\* C12, as stated: N sequential pulls perform exactly one create and N
\* cleans, exactly one database exists, and the idle queue has length 1.
C12_ReuseCleansEveryPull ==
    \A N \in 1 .. MaxPulls :
        Sequential(N) =>
            /\ pool.creates = 1 /\ pool.cleans = N
            /\ Cardinality(PoolDbs) = 1 /\ Len(pool.idle) = 1

\* C12, amended: the first pull finds the idle queue empty and creates, and
\* only the later pulls pop and clean: N sequential pulls that each return a
\* guard perform exactly one create and N - 1 cleans; at most one database
\* exists throughout and exactly one after the first pull; at the end the
\* idle queue has length 1.
C12_ReuseCleansLaterPulls ==
    /\ (pool.seq /\ ~pool.failed) => Cardinality(PoolDbs) <= 1
    /\ \A N \in 1 .. MaxPulls :
          Sequential(N) =>
              /\ pool.creates = 1 /\ pool.cleans = N - 1
              /\ Cardinality(PoolDbs) = 1 /\ Len(pool.idle) = 1

\* pull_immutable() was called MaxPulls times in sequence.
C12_Witness == Sequential(MaxPulls) /\ pool.cleans = MaxPulls - 1

\* The number of times id is in the queue q.
Occ(q, id) == Cardinality({k \in 1 .. Len(q) : q[k] = id})

\* The database of every outstanding Immutable guard and of every idle entry
\* exists.
ImmutableDbsExist ==
    /\ \A id \in Ids : pool.imm[id] > 0 => get_db_name(id) \in dbs
    /\ \A k \in 1 .. Len(pool.idle) : get_db_name(pool.idle[k]) \in dbs

\* C13: the release of an Immutable guard pushes its id onto the idle queue
\* and does nothing else: it calls no drop (no operation starts), and the
\* engine and the retained connections are untouched, so the databases that
\* existed before the release exist after it; the databases of outstanding
\* Immutable guards and of idle entries exist.
C13_ImmutableReleaseKeeps ==
    [][/\ ImmutableDbsExist'
       /\ \A id \in Ids :
             pool'.imm[id] < pool.imm[id] =>
                /\ pool'.idle = Append(pool.idle, id)
                /\ pool'.task = pool.task
                /\ op' = op
                /\ engine' = engine
                /\ db_conns' = db_conns]_vars

\* Two Immutable guards were out at once (the second id was minted while the
\* first was not idle), both are released, and both databases exist.
C13_Witness ==
    /\ pool.alive /\ AtRest
    /\ Len(pool.idle) >= 2
    /\ \A k \in 1 .. Len(pool.idle) : get_db_name(pool.idle[k]) \in dbs

\* C14: after the teardown of a pool whose guards were all released, the
\* idle queue is empty, and once teardown has dropped what it drained, no
\* call of the pool having returned an error, no database created through
\* the pool exists.
C14_TeardownDropsIdle ==
    (~pool.alive /\ pool.orderly) =>
        /\ pool.idle = <<>>
        /\ (pool.down = <<>> /\ AtRest /\ ~pool.failed) => PoolDbs = {}

\* Teardown of a pool with two idle entries is over: both were dropped.
C14_Witness ==
    /\ ~pool.alive /\ pool.orderly /\ pool.down = <<>> /\ AtRest
    /\ ~pool.failed
    /\ PoolDbs = {}
    /\ Cardinality({id \in Ids : hist[id].dropped /\ hist[id].mode}) >= 2

\* What holds of the Mutable guards in every state: the database behind an
\* outstanding guard is an existing Unrestricted one; an Unrestricted
\* database is never in the idle queue; the operation a release runs is
\* drop(id, Unrestricted); once the release is over, drop was called, and if
\* it returned Ok the database does not exist.
MutableDisposed ==
    \A id \in Ids :
        /\ pool.mut[id] > 0 =>
              /\ hist[id].created = "ok" /\ ~hist[id].mode
              /\ get_db_name(id) \in dbs /\ get_db_name(id) \in owner
        /\ (hist[id].created # "no" /\ ~hist[id].mode) =>
              Occ(pool.idle, id) = 0 /\ Occ(pool.down, id) = 0
        /\ (pool.task[id] = "release" /\ op[id].pc # "idle") =>
              op[id].kind = "drop" /\ ~op[id].restricted
        /\ ( /\ hist[id].created = "ok" /\ ~hist[id].mode
             /\ pool.mut[id] = 0 /\ pool.task[id] = "-" ) =>
              /\ hist[id].prev = "other"
              /\ hist[id].dropped => get_db_name(id) \notin dbs
              /\ ~pool.failed => hist[id].dropped

\* C15: create_mutable() hands out a guard on a new Unrestricted database;
\* the release of the guard starts drop(id, Unrestricted) and leaves the
\* idle queue as it is; the database is never pushed onto the idle queue,
\* and after the release, when the drop returned Ok, it does not exist.
C15_MutableIsDisposable ==
    [][/\ MutableDisposed'
       /\ \A id \in Ids :
             /\ pool'.mut[id] > pool.mut[id] =>
                   pool.mut[id] = 0 /\ hist[id].prev = "create"
             /\ pool'.mut[id] < pool.mut[id] =>
                   /\ pool'.idle = pool.idle
                   /\ pool'.task[id] = "release"]_vars

\* A Mutable guard was released and its database dropped, while an entry
\* sat in the idle queue.
C15_Witness ==
    \E id \in Ids :
        /\ hist[id].created = "ok" /\ ~hist[id].mode
        /\ pool.mut[id] = 0 /\ pool.task[id] = "-"
        /\ hist[id].dropped
        /\ pool.idle # <<>>

\* C16: every id is held at most once: it is in the idle queue (or among
\* the entries teardown drained), or behind one outstanding guard, or in the
\* hands of one call of the pool; a lifecycle operation is in flight only
\* for an id in the hands of a call, so at most one per id.
C16_OneHolderPerId ==
    \A id \in Ids :
        /\ Occ(pool.idle, id) + Occ(pool.down, id) + pool.imm[id] + pool.mut[id]
              + (IF pool.task[id] # "-" THEN 1 ELSE 0) <= 1
        /\ op[id].pc # "idle" => pool.task[id] # "-"

\* An Immutable guard and a Mutable guard are outstanding at the same time.
C16_Witness ==
    \E i, j \in Ids : pool.imm[i] = 1 /\ pool.mut[j] = 1

\* C17, as stated: after a successful init with drop-previous enabled
\* neither the databases that matched the prefix nor the roles of their
\* names remain (the sweep runs "drop database" then "drop role").
C17_SweepDropsRoles ==
    (sweep.pc = "done" /\ sweep.res = "ok" /\ sweep.flag)
    => \A n \in sweep.pre : n \notin dbs /\ n \notin roles

\* C17, amended: for each previous database name the sweep executes one
\* statement, "drop database"; no step of init changes the roles; when init
\* returns Ok it has executed the enumeration and one statement per
\* enumerated name, and none of the enumerated databases exists.
C17_SweepDropsDatabasesOnly ==
    [][/\ sweep' # sweep => roles' = roles
       /\ (sweep'.pc = "done" /\ sweep'.res = "ok" /\ sweep'.flag) =>
             /\ \A n \in sweep'.names : n \notin dbs'
             /\ sweep'.nstmt = 1 + Cardinality(sweep'.names)]_vars

\* init returned Ok having dropped a leftover database whose role remains.
C17_Witness ==
    /\ sweep.pc = "done" /\ sweep.res = "ok" /\ sweep.flag
    /\ \E k \in Orphans :
          /\ get_db_name(k) \in sweep.names
          /\ get_db_name(k) \notin dbs
          /\ get_db_name(k) \in roles

\* C18: while clean(id) is in flight the map has no entry for id and clean
\* holds the connection that was retained when it was called; when clean
\* has returned Ok, that same connection is in the map under id and clean
\* holds none.
C18_CleanTakesAndPutsBack ==
    \A id \in Ids :
        /\ (op[id].kind = "clean" /\ op[id].pc \in {"k_conn", "k_trunc"}) =>
              /\ db_conns[id] = 0
              /\ op[id].conn = op[id].preConn
              /\ op[id].conn # 0
        /\ (Done(id, "clean") /\ op[id].res = "ok") =>
              /\ db_conns[id] = op[id].preConn
              /\ op[id].preConn # 0
              /\ op[id].conn = 0

\* clean returned Ok after truncating a table, the connection back in the map.
C18_Witness ==
    \E id \in Ids :
        /\ Done(id, "clean") /\ op[id].res = "ok"
        /\ "truncate_table" \in Steps(id)
        /\ db_conns[id] = op[id].preConn /\ db_conns[id] # 0

\* The privileged connection a restricted create works on once the hook is
\* through: the first one when the hook handed it back, else a fresh one.
HookConnection == IF hookKeeps THEN 1 ELSE 2

\* C19: create invokes the hook at most once, and exactly once when it
\* returns Ok, in both modes; a restricted create opens one privileged
\* connection, and exactly one more when the hook returned nothing; the
\* grants are executed on, and the retained entry holds, the connection the
\* hook returned or the fresh one.
C19_HookOnceAndLiveConnection ==
    \A id \in Ids :
        op[id].kind = "create" =>
            /\ Occ(op[id].log, "create_entities") <= 1
            /\ Occ(op[id].log, "establish_privileged") <= HookConnection
            /\ (op[id].pc = "done" /\ op[id].res = "ok") =>
                  /\ Occ(op[id].log, "create_entities") = 1
                  /\ op[id].restricted =>
                        Occ(op[id].log, "establish_privileged") = HookConnection
                  /\ ~op[id].restricted =>
                        Occ(op[id].log, "establish_privileged") = 0
            /\ (op[id].restricted /\ op[id].pc \in {"c_ent", "c_gt"}) =>
                  op[id].conn = HookConnection
            /\ "put_database_connection" \in Steps(id) =>
                  db_conns[id] = HookConnection

\* A restricted create returned Ok with a hook that consumed the connection.
C19_Witness ==
    \E id \in Ids :
        /\ Done(id, "create") /\ op[id].res = "ok" /\ op[id].restricted
        /\ ~hookKeeps
        /\ db_conns[id] = 2

IsPrefix(a, b) == Len(a) <= Len(b) /\ \A k \in 1 .. Len(a) : a[k] = b[k]

\* The steps of create(id, Restricted), in the order of the code.
RestrictedCreateSteps ==
    <<"get_default_connection", "create_database", "create_role",
      "establish_privileged", "create_entities">>
    \o (IF hookKeeps THEN <<>> ELSE <<"establish_privileged">>)
    \o <<"grant_table_privileges", "grant_sequence_privileges",
         "put_database_connection", "create_connection_pool">>

\* C20: the steps create(id, Restricted) has executed are always the first
\* ones of: create database, create role, privileged connection, hook,
\* table grant, sequence grant, retain, build pool; it returns Ok after all
\* of them; and what exists is what the executed steps made: the database,
\* the role, the hook's tables, the grants over those tables, and the
\* retained connection only once both grants are through.
C20_RestrictedCreateOrder ==
    \A id \in Ids :
        (op[id].kind = "create" /\ op[id].restricted) =>
            /\ IsPrefix(op[id].log, RestrictedCreateSteps)
            /\ (op[id].pc = "done" /\ op[id].res = "ok") =>
                  op[id].log = RestrictedCreateSteps
            /\ (get_db_name(id) \in dbs) = ("create_database" \in Steps(id))
            /\ (get_db_name(id) \in roles) = ("create_role" \in Steps(id))
            /\ tables[id] =
                  IF "create_entities" \in Steps(id) THEN hookTables ELSE {}
            /\ tpriv[id] =
                  IF "grant_table_privileges" \in Steps(id) THEN hookTables ELSE {}
            /\ spriv[id] =
                  IF "grant_sequence_privileges" \in Steps(id) THEN hookTables ELSE {}
            /\ (db_conns[id] # 0) = ("put_database_connection" \in Steps(id))

\* A restricted create returned Ok with a hook that created every table and
\* consumed the connection.
C20_Witness ==
    \E id \in Ids :
        /\ Done(id, "create") /\ op[id].res = "ok" /\ op[id].restricted
        /\ hookTables = Tables /\ ~hookKeeps
        /\ tpriv[id] = Tables /\ spriv[id] = Tables

\* What holds of Unrestricted databases in every state: neither while
\* create(id, Unrestricted) is in flight nor after it returned has the map an
\* entry for id; a clean(id) called on such a database is the fatal
\* take-on-missing-id violation and has executed no step.
UnrestrictedRetainsNothing ==
    \A id \in Ids :
        /\ (op[id].kind = "create" /\ ~op[id].restricted) => db_conns[id] = 0
        /\ (hist[id].created # "no" /\ ~hist[id].mode) => db_conns[id] = 0
        /\ (op[id].kind = "clean" /\ ~hist[id].mode) =>
              /\ op[id].pc = "done" /\ op[id].res = "panic"
              /\ op[id].log = <<>>

\* C21: create(id, Unrestricted) never stores a connection in the map of
\* retained connections: no id created as Unrestricted ever has an entry,
\* and no step of that create changes the entry of any id; clean(id) on an
\* Unrestricted database is the fatal take-on-missing-id violation: it
\* truncates nothing and leaves the engine and the map as they are.
C21_UnrestrictedNeverRetains ==
    [][/\ UnrestrictedRetainsNothing'
       /\ \A id \in Ids :
             /\ ( /\ op'[id] # op[id]
                  /\ op'[id].kind = "create" /\ ~op'[id].restricted ) =>
                   db_conns' = db_conns
             /\ ( /\ op'[id] # op[id]
                  /\ op'[id].kind = "clean" /\ ~hist[id].mode ) =>
                   engine' = engine /\ db_conns' = db_conns]_vars

\* clean was called on an existing Unrestricted database that holds rows,
\* while the map retains the connection of a Restricted one.
C21_Witness ==
    \E id, j \in Ids :
        /\ Done(id, "clean") /\ op[id].res = "panic"
        /\ hist[id].created = "ok" /\ ~hist[id].mode
        /\ get_db_name(id) \in dbs
        /\ \E t \in Tables : rows[id][t] > 0
        /\ db_conns[j] # 0

\* A drop future of init waits for a default connection while every
\* connection of the pool is the one init itself holds until it returns: no
\* operation and no other drop future holds one it could give back.
SelfWait ==
    /\ sweep.pc = "i_sweep"
    /\ \E n \in PoolNames : sweep.sub[n] = "todo"
    /\ ~CanGetDefault
    /\ InitHolds = DefaultInUse

\* C22, as stated: every init() call with drop-previous enabled eventually
\* returns, whatever the capacity of the pool of default connections and
\* the number of previous databases, and init never waits for a default
\* connection while itself holding the connection the wait depends on.
C22_InitReturnsWithoutSelfWait ==
    /\ (sweep.pc \notin {"idle", "done"}) ~> (sweep.pc = "done")
    /\ [](~SelfWait)

\* C23, as stated: when clean(id) has returned an error (the listing of the
\* table names failed, or the truncate batch failed part-way), the map
\* still holds the retained connection of id, the one it held when clean was
\* called, so that a later clean(id) or drop(id, Restricted) finds it.
C23_FailedCleanKeepsConnection ==
    \A id \in Ids :
        (Done(id, "clean") /\ op[id].failed)
        => /\ db_conns[id] # 0
           /\ db_conns[id] = op[id].preConn

\* C24, as stated: when drop(id, Restricted) has returned an error (no
\* default connection, or "drop database" or "drop role" failed) while the
\* database still exists, the map has an entry for id, so that a second
\* drop(id, Restricted) finds it: once that drop is no longer in flight, the
\* Restricted database that still exists has a retained entry.
C24_FailedDropCanBeRetried ==
    \A id \in Ids :
        ( /\ Done(id, "drop") /\ op[id].restricted /\ op[id].failed
          /\ get_db_name(id) \in dbs ) => db_conns[id] # 0

\* The kind the failure of the step an operation is at is to be reported
\* as: Pool where it obtains the default connection, Connection where it
\* establishes a privileged or restricted connection, Build where it
\* constructs the connection pool, Query where it executes a statement.
PhaseKind(o) ==
    CASE o.pc \in {"c_start", "d_start"} -> "Pool"
      [] o.pc = "c_role" /\ o.restricted -> "Connection"
      [] o.pc \in {"c_lost", "c_own"} -> "Connection"
      [] o.pc = "c_pool" -> "Build"
      [] OTHER -> "Query"

\* C25: the error an operation returns has the kind of the phase that
\* failed, in create, clean and drop and in init (where the failing step is
\* init's own or that of one drop future); the BuildError and PoolError
\* wrappers are converted to the Build and the Pool variant, which carry them.
C25_ErrorKindNamesPhase ==
    [][/\ \A id \in Ids :
             (~op[id].failed /\ op'[id].failed) =>
                 op'[id].res = PhaseKind(op[id])
       /\ (sweep.pc \notin {"idle", "done"} /\ sweep'.pc = "done"
              /\ sweep'.res # "ok") =>
             sweep'.res =
                 IF sweep.pc = "i_start" THEN "Pool"
                 ELSE IF sweep.pc = "i_conn" THEN "Query"
                 ELSE IF \E n \in PoolNames :
                            sweep.sub[n] = "todo" /\ sweep'.sub[n] = "nopool"
                      THEN "Pool" ELSE "Query"
       /\ \A r \in {"TimedOut", "User"} :
             /\ Into(BuildError(r)) = <<"Build", BuildError(r)>>
             /\ Into(PoolError(r)) = <<"Pool", PoolError(r)>>]_vars

\* A restricted create returned the Connection error of the connection it
\* had to establish again after the hook, and init the Pool error of a drop
\* future that obtained no default connection.
C25_Witness ==
    /\ \E id \in Ids :
          /\ Done(id, "create") /\ op[id].res = "Connection"
          /\ "create_entities" \in Steps(id)
    /\ sweep.pc = "done" /\ sweep.res = "Pool"
    /\ \E n \in PoolNames : sweep.sub[n] = "nopool"
====
